---- MODULE Spec2Model ----
(***************************************************************************)
(* Model of the visitor-registration bot (src/app.py): the request         *)
(* dispatcher slack_events, the validator validate_submission with the     *)
(* free-text time parser parse_flexible_time, and the orchestrator         *)
(* handle_submission with its external calls.                              *)
(*                                                                         *)
(* Texts are sequences of one-character strings, so that normalisation,    *)
(* strptime matching and the e-mail pattern are computed character by      *)
(* character as the code computes them.                                    *)
(***************************************************************************)
EXTENDS Integers, Sequences, FiniteSets, TLC

(***************************************************************************)
(* Python values that are not texts.  Each is a one-element sequence whose *)
(* element is no character, so it differs from every text.                 *)
(***************************************************************************)
\* Python None (a JSON null)
None == <<"None">>
\* a dictionary key that is absent (subscripting it raises KeyError)
Missing == <<"Missing">>
\* a key that is present but whose nested structure is broken
Malformed == <<"Malformed">>

IsText(v) == v \notin {None, Missing, Malformed}

(***************************************************************************)
(* str methods used by the code.                                           *)
(***************************************************************************)
IsSpace(c) == c = " "

Digits == <<"0", "1", "2", "3", "4", "5", "6", "7", "8", "9">>

IsDigit(c) == \E i \in 1..10 : Digits[i] = c

DigitVal(c) == (CHOOSE i \in 1..10 : Digits[i] = c) - 1

\* the character at position p, "" past the end
At(s, p) == IF p >= 1 /\ p <= Len(s) THEN s[p] ELSE ""

\* str.lower() on the letters that occur in the submitted texts
LowerChar(c) ==
    CASE c = "A" -> "a"
      [] c = "P" -> "p"
      [] c = "M" -> "m"
      [] OTHER -> c

Lower(s) == [i \in 1..Len(s) |-> LowerChar(s[i])]

RECURSIVE LStrip(_)
LStrip(s) == IF s # <<>> /\ IsSpace(Head(s)) THEN LStrip(Tail(s)) ELSE s

RECURSIVE RStrip(_)
RStrip(s) ==
    IF s # <<>> /\ IsSpace(s[Len(s)]) THEN RStrip(SubSeq(s, 1, Len(s) - 1)) ELSE s

\* str.strip()
Strip(s) == RStrip(LStrip(s))

StartsWith(s, old) ==
    Len(s) >= Len(old) /\ SubSeq(s, 1, Len(old)) = old

\* str.replace(old, new): left to right, non-overlapping, old non-empty
RECURSIVE Replace(_, _, _)
Replace(s, old, new) ==
    IF s = <<>> THEN <<>>
    ELSE IF StartsWith(s, old)
         THEN new \o Replace(SubSeq(s, Len(old) + 1, Len(s)), old, new)
         ELSE <<Head(s)>> \o Replace(Tail(s), old, new)

\* str.split()[0]: the first whitespace-delimited token; <<>> stands for
\* the IndexError of an empty split
RECURSIVE TakeWord(_)
TakeWord(s) ==
    IF s = <<>> \/ IsSpace(Head(s)) THEN <<>> ELSE <<Head(s)>> \o TakeWord(Tail(s))

SplitFirst(s) == TakeWord(LStrip(s))

(***************************************************************************)
(* datetime.strptime: the format is compiled to a regular expression that  *)
(* is matched with backtracking from the start of the text; the first      *)
(* match in priority order wins and must consume the whole text.           *)
(***************************************************************************)
Directives == {"%Y", "%m", "%d", "%H", "%I", "%M", "%p"}

Cand(ok, val, np) == [ok |-> ok, val |-> val, np |-> np]

\* the candidates that matched, in priority order
Matching(cs) == SelectSeq(cs, LAMBDA c : c.ok)

TwoDigits(s, p) == 10 * DigitVal(At(s, p)) + DigitVal(At(s, p + 1))

\* 1[0-2]|0[1-9]|[1-9]   (%I and %m)
Cands12(s, p) ==
    Matching(<<
        Cand(At(s, p) = "1" /\ At(s, p + 1) \in {"0", "1", "2"},
             IF IsDigit(At(s, p + 1)) THEN 10 + DigitVal(At(s, p + 1)) ELSE 0, p + 2),
        Cand(At(s, p) = "0" /\ IsDigit(At(s, p + 1)) /\ At(s, p + 1) # "0",
             IF IsDigit(At(s, p + 1)) THEN DigitVal(At(s, p + 1)) ELSE 0, p + 2),
        Cand(IsDigit(At(s, p)) /\ At(s, p) # "0",
             IF IsDigit(At(s, p)) THEN DigitVal(At(s, p)) ELSE 0, p + 1) >>)

\* 2[0-3]|[0-1]\d|\d   (%H)
CandsH(s, p) ==
    Matching(<<
        Cand(At(s, p) = "2" /\ At(s, p + 1) \in {"0", "1", "2", "3"},
             IF IsDigit(At(s, p + 1)) THEN 20 + DigitVal(At(s, p + 1)) ELSE 0, p + 2),
        Cand(At(s, p) \in {"0", "1"} /\ IsDigit(At(s, p + 1)),
             IF IsDigit(At(s, p)) /\ IsDigit(At(s, p + 1)) THEN TwoDigits(s, p) ELSE 0,
             p + 2),
        Cand(IsDigit(At(s, p)),
             IF IsDigit(At(s, p)) THEN DigitVal(At(s, p)) ELSE 0, p + 1) >>)

\* [0-5]\d|\d   (%M)
CandsM(s, p) ==
    Matching(<<
        Cand(At(s, p) \in {"0", "1", "2", "3", "4", "5"} /\ IsDigit(At(s, p + 1)),
             IF IsDigit(At(s, p)) /\ IsDigit(At(s, p + 1)) THEN TwoDigits(s, p) ELSE 0,
             p + 2),
        Cand(IsDigit(At(s, p)),
             IF IsDigit(At(s, p)) THEN DigitVal(At(s, p)) ELSE 0, p + 1) >>)

\* \d\d\d\d   (%Y)
CandsY(s, p) ==
    LET ok == \A i \in 0..3 : IsDigit(At(s, p + i))
    IN  Matching(<<
            Cand(ok, IF ok THEN 100 * TwoDigits(s, p) + TwoDigits(s, p + 2) ELSE 0,
                 p + 4) >>)

\* 3[01]|[12]\d|0[1-9]|[1-9]| [1-9]   (%d)
CandsD(s, p) ==
    Matching(<<
        Cand(At(s, p) = "3" /\ At(s, p + 1) \in {"0", "1"},
             IF IsDigit(At(s, p + 1)) THEN 30 + DigitVal(At(s, p + 1)) ELSE 0, p + 2),
        Cand(At(s, p) \in {"1", "2"} /\ IsDigit(At(s, p + 1)),
             IF IsDigit(At(s, p)) /\ IsDigit(At(s, p + 1)) THEN TwoDigits(s, p) ELSE 0,
             p + 2),
        Cand(At(s, p) = "0" /\ IsDigit(At(s, p + 1)) /\ At(s, p + 1) # "0",
             IF IsDigit(At(s, p + 1)) THEN DigitVal(At(s, p + 1)) ELSE 0, p + 2),
        Cand(IsDigit(At(s, p)) /\ At(s, p) # "0",
             IF IsDigit(At(s, p)) THEN DigitVal(At(s, p)) ELSE 0, p + 1),
        Cand(At(s, p) = " " /\ IsDigit(At(s, p + 1)) /\ At(s, p + 1) # "0",
             IF IsDigit(At(s, p + 1)) THEN DigitVal(At(s, p + 1)) ELSE 0, p + 2) >>)

\* CandsP with the values of am and pm exchanged
CandsP_Swapped(s, p) ==
    Matching(<<
        Cand(LowerChar(At(s, p)) = "a" /\ LowerChar(At(s, p + 1)) = "m", 1, p + 2),
        Cand(LowerChar(At(s, p)) = "p" /\ LowerChar(At(s, p + 1)) = "m", 0, p + 2) >>)

\* (am|pm), the text is matched ignoring case; 0 is am, 1 is pm
CandsP(s, p) ==
    Matching(<<
        Cand(LowerChar(At(s, p)) = "a" /\ LowerChar(At(s, p + 1)) = "m", 0, p + 2),
        Cand(LowerChar(At(s, p)) = "p" /\ LowerChar(At(s, p + 1)) = "m", 1, p + 2) >>)

\* the number of whitespace characters from position p on
RECURSIVE SpaceRun(_, _)
SpaceRun(s, p) == IF IsSpace(At(s, p)) THEN 1 + SpaceRun(s, p + 1) ELSE 0

\* \s+ (a blank of the format), greedy: the longest run first
CandsWS(s, p) ==
    LET n == SpaceRun(s, p)
    IN  [i \in 1..n |-> Cand(TRUE, 0, p + (n - i + 1))]

\* any other character of the format matches itself
CandsLit(c, s, p) == Matching(<< Cand(At(s, p) = c, 0, p + 1) >>)

Cands(tok, s, p) ==
    CASE tok = "%Y" -> CandsY(s, p)
      [] tok = "%m" -> Cands12(s, p)
      [] tok = "%d" -> CandsD(s, p)
      [] tok = "%H" -> CandsH(s, p)
      [] tok = "%I" -> Cands12(s, p)
      [] tok = "%M" -> CandsM(s, p)
      [] tok = "%p" -> CandsP(s, p)
      [] tok = " "  -> CandsWS(s, p)
      [] OTHER -> CandsLit(tok, s, p)

NoMatch == [ok |-> FALSE]

\* re.match of the compiled format from token k and position p on
RECURSIVE Match(_, _, _, _, _)
RECURSIVE TryCands(_, _, _, _, _, _)
Match(fmt, k, s, p, acc) ==
    IF k > Len(fmt)
    THEN [ok |-> TRUE, end |-> p, found |-> acc]
    ELSE TryCands(fmt, k, s, acc, Cands(fmt[k], s, p), 1)

TryCands(fmt, k, s, acc, cs, j) ==
    IF j > Len(cs)
    THEN NoMatch
    ELSE LET c == cs[j]
             acc2 == IF fmt[k] \in Directives
                     THEN [acc EXCEPT ![fmt[k]] = c.val]
                     ELSE acc
             r == Match(fmt, k + 1, s, c.np, acc2)
         IN  IF r.ok THEN r ELSE TryCands(fmt, k, s, acc, cs, j + 1)

IsLeap(y) == (y % 4 = 0 /\ y % 100 # 0) \/ y % 400 = 0

DaysInMonth(y, m) ==
    CASE m \in {4, 6, 9, 11} -> 30
      [] m = 2 -> IF IsLeap(y) THEN 29 ELSE 28
      [] OTHER -> 31

ValueError == [ok |-> FALSE, exc |-> "ValueError"]

AttributeError == [ok |-> FALSE, exc |-> "AttributeError"]

\* the datetime built from the fields the match found: the 12-hour clock
\* is converted with am/pm, a field not in the format takes its default, and
\* the datetime constructor rejects a day the month does not have
DateTimeOf(f) ==
    LET year == IF f["%Y"] = -1 THEN 1900 ELSE f["%Y"]
        month == IF f["%m"] = -1 THEN 1 ELSE f["%m"]
        day == IF f["%d"] = -1 THEN 1 ELSE f["%d"]
        hour ==
            IF f["%I"] # -1
            THEN IF f["%p"] = 1
                 THEN (IF f["%I"] # 12 THEN f["%I"] + 12 ELSE 12)
                 ELSE (IF f["%I"] = 12 THEN 0 ELSE f["%I"])
            ELSE IF f["%H"] # -1 THEN f["%H"] ELSE 0
        minute == IF f["%M"] = -1 THEN 0 ELSE f["%M"]
    IN  IF day > DaysInMonth(year, month) THEN ValueError
        ELSE [ok |-> TRUE,
              dt |-> [year |-> year, month |-> month, day |-> day,
                      hour |-> hour, minute |-> minute]]

\* the match must exist and must leave no unconverted data
Converted(s, r) ==
    IF ~r.ok THEN ValueError
    ELSE IF r.end # Len(s) + 1 THEN ValueError
    ELSE DateTimeOf(r.found)

\* datetime.strptime(s, fmt): the datetime, or ValueError
strptime(s, fmt) == Converted(s, Match(fmt, 1, s, 1, [d \in Directives |-> -1]))

(***************************************************************************)
(* parse_flexible_time                                                     *)
(***************************************************************************)
\* the formats tried, in order, each behind the "%Y-%m-%d " prefix
DatePrefix == <<"%Y", "-", "%m", "-", "%d", " ">>

formats ==
    << <<"%I", ":", "%M", " ", "%p">>,
       <<"%I", " ", "%p">>,
       <<"%H", ":", "%M">>,
       <<"%I", ":", "%M", "%p">>,
       <<"%I", ".", "%M", " ", "%p">>,
       <<"%I", ".", "%M", "%p">>,
       <<"%H", ".", "%M">> >>

\* time_str.strip().lower().replace(".", ":").replace("  ", " ")
\*         .replace("pm", " pm").replace("am", " am")
NormaliseTime(t) ==
    Replace(Replace(Replace(Replace(Lower(Strip(t)),
        <<".">>, <<":">>), <<" ", " ">>, <<" ">>),
        <<"p", "m">>, <<" ", "p", "m">>), <<"a", "m">>, <<" ", "a", "m">>)

\* what an f-string prints for the date value
FormatValue(v) == IF v = None THEN <<"N", "o", "n", "e">> ELSE v

\* lines 147-152: the first format that parses wins
RECURSIVE TryFormats(_, _)
RECURSIVE FirstParsed(_, _, _)
TryFormats(text, i) ==
    IF i > Len(formats)
    THEN ValueError
    ELSE FirstParsed(strptime(text, DatePrefix \o formats[i]), text, i)

FirstParsed(r, text, i) == IF r.ok THEN r ELSE TryFormats(text, i + 1)

parse_flexible_time(date_str, time_str) ==
    IF ~IsText(time_str)
    THEN AttributeError
    ELSE TryFormats(FormatValue(date_str) \o <<" ">> \o NormaliseTime(time_str), 1)

\* datetime ordering: lexicographic on (year, month, day, hour, minute)
DtKey(dt) == (((dt.year * 12 + dt.month) * 31 + dt.day) * 24 + dt.hour) * 60 + dt.minute

\* DtGeq with equal instants let through
DtGeq_Strict(a, b) == DtKey(a) > DtKey(b)

\* line 164: start_dt >= end_dt
DtGeq(a, b) == DtKey(a) >= DtKey(b)

(***************************************************************************)
(* validate_submission                                                     *)
(***************************************************************************)
\* [^@\s]+
NoAtNoSpace(s) == s # <<>> /\ \A i \in 1..Len(s) : s[i] # "@" /\ ~IsSpace(s[i])

\* re.match(r"^[^@\s]+@[^@\s]+\.[^@\s]+$", email)
EmailMatches(email) ==
    \E a \in 1..Len(email) : \E d \in 1..Len(email) :
        /\ a < d
        /\ email[a] = "@"
        /\ email[d] = "."
        /\ NoAtNoSpace(SubSeq(email, 1, a - 1))
        /\ NoAtNoSpace(SubSeq(email, a + 1, d - 1))
        /\ NoAtNoSpace(SubSeq(email, d + 1, Len(email)))

EmptyDict == [k \in {} |-> ""]

\* d[k] = v on a dictionary
Put(d, k, v) == [x \in DOMAIN d \cup {k} |-> IF x = k THEN v ELSE d[x]]

MsgEndAfterStart == "End time must be after start time."

MsgStartTime == "Enter time like 2:30 PM or 14:30"

MsgEndTime == "Enter time like 3:30 PM or 15:30"

MsgEmail == "Must be a valid email address."

TimeParseErrors == Put(Put(EmptyDict, "start_time", MsgStartTime), "end_time", MsgEndTime)

\* the two calls of parse_flexible_time (lines 161-162 and 199-200)
ParseTimes(values) ==
    [f \in {"start_time", "end_time"} |-> parse_flexible_time(values.date, values[f])]

\* CompareTimes blaming only the field whose text did not parse
CompareTimes_OnlyFailing(start_dt, end_dt) ==
    IF ~start_dt.ok
    THEN Put(EmptyDict, "start_time", MsgStartTime)
    ELSE IF ~end_dt.ok
         THEN Put(EmptyDict, "end_time", MsgEndTime)
         ELSE IF DtKey(start_dt.dt) >= DtKey(end_dt.dt)
              THEN Put(EmptyDict, "end_time", MsgEndAfterStart)
              ELSE EmptyDict

\* lines 164-170 on the two parse results
CompareTimes(start_dt, end_dt) ==
    IF ~start_dt.ok \/ ~end_dt.ok
    THEN TimeParseErrors
    ELSE IF DtGeq(start_dt.dt, end_dt.dt)
         THEN Put(EmptyDict, "end_time", MsgEndAfterStart)
         ELSE EmptyDict

CompareParsed(t) == CompareTimes(t["start_time"], t["end_time"])

\* lines 156-170: the try block over the time fields
TimeErrors(values) ==
    IF \E f \in {"date", "start_time", "end_time"} : values[f] \in {Missing, Malformed}
    THEN TimeParseErrors
    ELSE CompareParsed(ParseTimes(values))

\* lines 172-174: the truth value of the e-mail text and the pattern check
EmailErrors(errors, email) ==
    IF IsText(email) /\ email # <<>> /\ ~EmailMatches(email)
    THEN Put(errors, "guest_email", MsgEmail)
    ELSE errors

\* EmailStep skipping the e-mail check once a time error is recorded
EmailStep_ShortCircuit(errors, guest_email) ==
    IF guest_email = Malformed
    THEN [raised |-> TRUE, errors |-> errors]
    ELSE [raised |-> FALSE,
          errors |-> IF DOMAIN errors # {}
                     THEN errors
                     ELSE EmailErrors(errors, IF guest_email = Missing
                                              THEN <<>> ELSE guest_email)]

\* line 172: reading the e-mail raises when the entry is broken
EmailStep(errors, guest_email) ==
    IF guest_email = Malformed
    THEN [raised |-> TRUE, errors |-> errors]
    ELSE [raised |-> FALSE,
          errors |-> EmailErrors(errors, IF guest_email = Missing THEN <<>> ELSE guest_email)]

\* the returned mapping, or the exception that escapes
validate_submission(values) == EmailStep(TimeErrors(values), values.guest_email)

(***************************************************************************)
(* get_user_profile and create_event                                       *)
(***************************************************************************)
Unknown == <<"U", "n", "k", "n", "o", "w", "n">>

AdminEmail ==
    <<"a", "l", "a", "n", "n", "a", ".", "c", "o", "o", "p", "e", "r", "@",
      "a", "n", "t", "e", "r", "i", "o", "r", ".", "c", "o", "m">>

\* the value and truth value of profile.get(key)
Truthy(v) == IsText(v) /\ v # <<>>

\* lines 187-188: what the except clause returns
FallbackProfile == [email |-> None, first_name |-> Unknown]

\* line 184 raises: without a first name, real_name.split()[0] fails when
\* real_name is None (AttributeError) or blank (IndexError)
ProfileRaises(profile) ==
    /\ ~Truthy(profile.first_name)
    /\ ~(IsText(profile.real_name) /\ SplitFirst(profile.real_name) # <<>>)

\* lines 181-188 on the profile the directory returned
ProfileResult(profile) ==
    IF ProfileRaises(profile)
    THEN FallbackProfile
    ELSE [email |-> profile.email,
          first_name |-> IF Truthy(profile.first_name)
                         THEN profile.first_name
                         ELSE SplitFirst(profile.real_name)]

\* Attendees without the test of line 267
Attendees_AlwaysHost(host_email) == <<host_email, AdminEmail>>

\* lines 266-269
Attendees(host_email) ==
    (IF Truthy(host_email) THEN <<host_email>> ELSE <<>>) \o <<AdminEmail>>

\* lines 271-283: the event body sent to the calendar
EventBody(start_dt, end_dt, guest_name, host_first_name, host_email, reason) ==
    [guest |-> guest_name, host |-> host_first_name, description |-> reason,
     start |-> start_dt, end |-> end_dt, attendees |-> Attendees(host_email)]

(***************************************************************************)
(* Inputs.                                                                 *)
(***************************************************************************)
NumReq == 2

Reqs == 1..NumReq

Txt230pm == <<"2", ":", "3", "0", "p", "m">>

Txt230PM == <<"2", ":", "3", "0", " ", "P", "M">>

Txt2dot30pm == <<"2", ".", "3", "0", "p", "m">>

Txt1430 == <<"1", "4", ":", "3", "0">>

Txt330PM == <<"3", ":", "3", "0", " ", "P", "M">>

Txt3pm == <<"3", " ", "p", "m">>

Txt15dot30 == <<"1", "5", ".", "3", "0">>

Txt12am == <<"1", "2", " ", "a", "m">>

TxtNoon == <<"n", "o", "o", "n">>

\* what can be typed into a time field; None is an input left without a value
TimeTexts ==
    { Txt230pm, Txt230PM, Txt2dot30pm, Txt1430, Txt330PM, Txt3pm, Txt15dot30, Txt12am,
      TxtNoon, <<>>, None }

VisitDate == <<"2", "0", "2", "4", "-", "0", "6", "-", "0", "1">>

Dates == { VisitDate, None, Missing }

GoodEmail == <<"g", "@", "x", ".", "c", "o">>

NotAnEmail == <<"n", "o", "t", "-", "a", "n", "-", "e", "m", "a", "i", "l">>

SpacedEmail == <<"g", " ", "@", "x", ".", "c", "o">>

NoTldEmail == <<"g", "@", "x">>

Emails == { Missing, None, <<>>, Malformed, GoodEmail, NotAnEmail, SpacedEmail, NoTldEmail }

GuestNames == { <<"B", "o", "b">>, Missing }

Reasons == { <<"d", "e", "m", "o">> }

ValuesSet ==
    [date : Dates, start_time : TimeTexts, end_time : TimeTexts,
     guest_email : Emails, guest_name : GuestNames, reason : Reasons]

NoValues ==
    [date |-> Missing, start_time |-> Missing, end_time |-> Missing,
     guest_email |-> Missing, guest_name |-> Missing, reason |-> Missing]

\* the id of the submitting user, per request
UserId(r) == <<"U", Digits[r + 1]>>

AdminId == <<"U", "A">>

\* what the directory can return for the host
Profiles ==
    [email : {None, <<"h", "@", "x", ".", "c", "o">>},
     first_name : {None, <<"A", "n", "n">>},
     real_name : {None, <<>>, <<"A", "n", "n", " ", "L", "e", "e">>}]

\* the requests that can arrive, by the branch of slack_events they take;
\* nonobject_payload is a payload that json.loads reads as a value that is
\* no object, such as [], or whose "view" is none
Kinds ==
    {"bad_signature", "command", "no_handler", "bad_payload", "other_payload",
     "nonobject_payload"}

Requests(r) ==
    [kind : Kinds, has_values : {FALSE}, values : {NoValues}, user : {Missing}]
    \cup [kind : {"submission"}, has_values : {FALSE}, values : {NoValues},
          user : {UserId(r), Missing}]
    \cup [kind : {"submission"}, has_values : {TRUE}, values : ValuesSet,
          user : {UserId(r), Missing}]

Absent == [kind |-> "absent", has_values |-> FALSE, values |-> NoValues, user |-> Missing]

(***************************************************************************)
(* State.                                                                  *)
(***************************************************************************)
VARIABLES
    req,        \* the inbound request of each handler invocation
    pc,         \* the position of each invocation in slack_events
    errors,     \* the mapping validate_submission returned
    validated,  \* "no", "returned" or "raised"
    locals,     \* start_dt, end_dt and host of handle_submission, and the
                \* profile the directory returned to get_user_profile
    calls,      \* the external calls issued, in order
    events,     \* the event bodies sent to the calendar
    inflight,   \* the external call that has not returned yet
    failed,     \* the external calls that raised
    logs,       \* the diagnostics printed by the except clauses
    resp        \* the responses returned to the platform

vars == <<req, pc, errors, validated, locals, calls, events, inflight, failed, logs, resp>>

NoCall == "none"

NoDt == [year |-> 0, month |-> 0, day |-> 0, hour |-> 0, minute |-> 0]

\* the local profile of get_user_profile before line 181 assigns it
NoProfile == [email |-> None, first_name |-> None, real_name |-> None]

NoLocals ==
    [start_dt |-> NoDt, end_dt |-> NoDt, profile |-> NoProfile, host |-> FallbackProfile]

Call(op, arg) == [op |-> op, arg |-> arg]

Response(status, body, errs) == [status |-> status, body |-> body, errors |-> errs]

ClearResponse == Response(200, "clear", EmptyDict)

InitRest ==
    /\ errors = [r \in Reqs |-> EmptyDict]
    /\ validated = [r \in Reqs |-> "no"]
    /\ locals = [r \in Reqs |-> NoLocals]
    /\ calls = [r \in Reqs |-> <<>>]
    /\ events = [r \in Reqs |-> <<>>]
    /\ inflight = [r \in Reqs |-> NoCall]
    /\ failed = [r \in Reqs |-> {}]
    /\ logs = [r \in Reqs |-> <<>>]
    /\ resp = [r \in Reqs |-> <<>>]

\* one request arrives, with any input
Init ==
    /\ \E q \in Requests(1) : req = [r \in Reqs |-> IF r = 1 THEN q ELSE Absent]
    /\ pc = [r \in Reqs |-> IF r = 1 THEN "start" ELSE "absent"]
    /\ InitRest

(***************************************************************************)
(* slack_events, lines 22-71.                                              *)
(***************************************************************************)
Goto(r, l) == pc' = [pc EXCEPT ![r] = l]

Respond(r, rsp) == resp' = [resp EXCEPT ![r] = Append(@, rsp)]

Log(r, msg) == logs' = [logs EXCEPT ![r] = Append(@, msg)]

\* an external call is issued: it is outstanding until it returns
Issue(r, c) ==
    /\ calls' = [calls EXCEPT ![r] = Append(@, c)]
    /\ inflight' = [inflight EXCEPT ![r] = c.op]

\* Return with the failure kept in one table that all requests share
Return_Shared(r, step, ok) ==
    /\ inflight' = [inflight EXCEPT ![r] = NoCall]
    /\ failed' = [o \in Reqs |-> IF ok \/ pc[o] = "absent" THEN failed[o]
                                 ELSE failed[o] \cup {step}]

\* the outstanding call returns, normally or by raising
Return(r, step, ok) ==
    /\ inflight' = [inflight EXCEPT ![r] = NoCall]
    /\ failed' = [failed EXCEPT ![r] = IF ok THEN @ ELSE @ \cup {step}]

LogSlackEvents == "Error in handle_submission"

LogHandleSubmission == "Exception in handle_submission"

LogAdmin == "Failed to DM Alanna"

LogProfile == "Could not fetch Slack user profile"

\* lines 26-45 and 71: the signature check and the routing; payload.get of
\* line 45 is outside every try, so on a payload without that method the
\* AttributeError leaves slack_events and the request is answered with 500
Dispatch(r) ==
    /\ pc[r] = "start"
    /\ CASE req[r].kind = "bad_signature" ->
                Respond(r, Response(403, "Invalid signature", EmptyDict)) /\ Goto(r, "done")
         [] req[r].kind = "command" ->
                Goto(r, "open_modal") /\ UNCHANGED resp
         [] req[r].kind = "bad_payload" ->
                Respond(r, Response(400, "Bad payload", EmptyDict)) /\ Goto(r, "done")
         [] req[r].kind = "nonobject_payload" ->
                Respond(r, Response(500, "Internal Server Error", EmptyDict))
                    /\ Goto(r, "done")
         [] req[r].kind = "submission" ->
                Goto(r, "validate") /\ UNCHANGED resp
         [] OTHER ->
                Respond(r, Response(404, "No handler", EmptyDict)) /\ Goto(r, "done")
    /\ UNCHANGED <<req, errors, validated, locals, calls, events, inflight, failed, logs>>

\* lines 30-31 and 74: views_open is called
OpenModalCall(r) ==
    /\ pc[r] = "open_modal"
    /\ Issue(r, Call("views_open", <<>>))
    /\ Goto(r, "open_modal_wait")
    /\ UNCHANGED <<req, errors, validated, locals, events, failed, logs, resp>>

\* line 32, or the error response of the framework when views_open raised
OpenModalReturn(r, ok) ==
    /\ pc[r] = "open_modal_wait"
    /\ Return(r, "views_open", ok)
    /\ Respond(r, IF ok THEN Response(200, "", EmptyDict)
                  ELSE Response(500, "Internal Server Error", EmptyDict))
    /\ Goto(r, "done")
    /\ UNCHANGED <<req, errors, validated, locals, calls, events, logs>>

\* AfterValidation without the test of line 52
AfterValidation_NoErrorsTest(r, v) ==
    IF ~req[r].has_values \/ v.raised THEN "se_except"
    ELSE IF req[r].user = Missing THEN "se_except"
    ELSE "hs_extract"

\* AfterValidation without the return of line 53: the handler falls through
\* to the success response after the inline errors
AfterValidation_NoReturn(r, v) ==
    IF ~req[r].has_values \/ v.raised THEN "se_except"
    ELSE IF DOMAIN v.errors # {} THEN "respond_clear"
    ELSE IF req[r].user = Missing THEN "se_except"
    ELSE "hs_extract"

\* the position after validation: lines 52-60
AfterValidation(r, v) ==
    IF ~req[r].has_values \/ v.raised THEN "se_except"
    ELSE IF DOMAIN v.errors # {} THEN "done"
    ELSE IF req[r].user = Missing THEN "se_except"
    ELSE "hs_extract"

\* Validated with the success response sent before handle_submission runs
Validated_AckFirst(r, v) ==
    LET ran == req[r].has_values
        returned == ran /\ ~v.raised
    IN  /\ validated' = [validated EXCEPT ![r] =
                             IF ~ran THEN "no" ELSE IF v.raised THEN "raised" ELSE "returned"]
        /\ errors' = [errors EXCEPT ![r] = IF returned THEN v.errors ELSE @]
        /\ IF returned /\ DOMAIN v.errors # {}
           THEN Respond(r, Response(200, "errors", v.errors))
           ELSE IF returned /\ req[r].user # Missing
                THEN Respond(r, ClearResponse)
                ELSE UNCHANGED resp
        /\ Goto(r, IF ~req[r].has_values \/ v.raised THEN "se_except"
                   ELSE IF DOMAIN v.errors # {} THEN "done"
                   ELSE IF req[r].user = Missing THEN "se_except"
                   ELSE "hs_extract")

\* lines 49-60 once validate_submission has produced v
Validated(r, v) ==
    LET ran == req[r].has_values
        returned == ran /\ ~v.raised
    IN  /\ validated' = [validated EXCEPT ![r] =
                             IF ~ran THEN "no" ELSE IF v.raised THEN "raised" ELSE "returned"]
        /\ errors' = [errors EXCEPT ![r] = IF returned THEN v.errors ELSE @]
        /\ IF returned /\ DOMAIN v.errors # {}
           THEN Respond(r, Response(200, "errors", v.errors))
           ELSE UNCHANGED resp
        /\ Goto(r, AfterValidation(r, v))

\* lines 48-59: the values are read and validated; a non-empty mapping is
\* returned as the inline-errors response
Validate(r) ==
    /\ pc[r] = "validate"
    /\ Validated(r, validate_submission(req[r].values))
    /\ UNCHANGED <<req, locals, calls, events, inflight, failed, logs>>

\* lines 62-63
SlackEventsExcept(r) ==
    /\ pc[r] = "se_except"
    /\ Log(r, LogSlackEvents)
    /\ Goto(r, "respond_clear")
    /\ UNCHANGED <<req, errors, validated, locals, calls, events, inflight, failed, resp>>

\* lines 65-69
RespondClear(r) ==
    /\ pc[r] = "respond_clear"
    /\ Respond(r, ClearResponse)
    /\ Goto(r, "done")
    /\ UNCHANGED <<req, errors, validated, locals, calls, events, inflight, failed, logs>>

(***************************************************************************)
(* handle_submission, lines 190-253.                                       *)
(***************************************************************************)
\* lines 192-197 raise: a field that cannot be read
ExtractRaises(values) ==
    \/ \E f \in {"guest_name", "date", "start_time", "end_time", "reason"} :
            values[f] \in {Missing, Malformed}
    \/ values.guest_email = Malformed

\* lines 199-200 on the two parse results t
Extracted(r, t) ==
    IF ExtractRaises(req[r].values) \/ ~t["start_time"].ok \/ ~t["end_time"].ok
    THEN Goto(r, "hs_except") /\ UNCHANGED locals
    ELSE /\ locals' = [locals EXCEPT ![r].start_dt = t["start_time"].dt,
                                     ![r].end_dt = t["end_time"].dt]
         /\ Goto(r, "get_user_profile")

\* lines 192-200: the fields are read and the two times parsed again
HandleSubmissionParse(r) ==
    /\ pc[r] = "hs_extract"
    /\ Extracted(r, ParseTimes(req[r].values))
    /\ UNCHANGED <<req, errors, validated, calls, events, inflight, failed, logs, resp>>

\* lines 202 and 180: users_info is called
GetUserProfileCall(r) ==
    /\ pc[r] = "get_user_profile"
    /\ Issue(r, Call("users_info", req[r].user))
    /\ Goto(r, "users_info_wait")
    /\ UNCHANGED <<req, errors, validated, locals, events, failed, logs, resp>>

\* ProfileNext with the exception of the lookup raised out of get_user_profile
ProfileNext_Propagates(ok) == IF ok THEN "create_event" ELSE "hs_except"

\* lines 186-188 and 203: get_user_profile returns also when the lookup
\* raised, and handle_submission goes on
ProfileNext(ok) == "create_event"

\* lines 181-188 and 203-204: the lookup returns profile, or raises
GetUserProfileReturn(r, ok, profile) ==
    /\ pc[r] = "users_info_wait"
    /\ Return(r, "users_info", ok)
    /\ locals' = [locals EXCEPT
            ![r].profile = IF ok THEN profile ELSE @,
            ![r].host = IF ok THEN ProfileResult(profile) ELSE FallbackProfile]
    /\ IF ok /\ ~ProfileRaises(profile) THEN UNCHANGED logs ELSE Log(r, LogProfile)
    /\ Goto(r, ProfileNext(ok))
    /\ UNCHANGED <<req, errors, validated, calls, events, resp>>

\* lines 260-264 raise: the credentials or the service cannot be built, and
\* no calendar call is issued
CreateEventSetupFails(r) ==
    /\ pc[r] = "create_event"
    /\ failed' = [failed EXCEPT ![r] = @ \cup {"create_event"}]
    /\ Goto(r, "hs_except")
    /\ UNCHANGED <<req, errors, validated, locals, calls, events, inflight, logs, resp>>

\* lines 215-222 and 266-285: the event is built and events().insert called
CreateEventCall(r) ==
    /\ pc[r] = "create_event"
    /\ Issue(r, Call("events_insert", <<>>))
    /\ events' = [events EXCEPT ![r] =
            Append(@, EventBody(locals[r].start_dt, locals[r].end_dt,
                                req[r].values.guest_name, locals[r].host.first_name,
                                locals[r].host.email, req[r].values.reason))]
    /\ Goto(r, "events_insert_wait")
    /\ UNCHANGED <<req, errors, validated, locals, failed, logs, resp>>

\* CreateEventNext with the exception of create_event swallowed
CreateEventNext_Swallowed(ok) == "host_dm"

\* CreateEventNext with the confirmation to the host left out
CreateEventNext_SkipsHostDM(ok) == IF ok THEN "admin_lookup" ELSE "hs_except"

\* an exception of create_event is not caught before line 252
CreateEventNext(ok) == IF ok THEN "host_dm" ELSE "hs_except"

\* lines 285-286: the insert returns, or raises out of create_event
CreateEventReturn(r, ok) ==
    /\ pc[r] = "events_insert_wait"
    /\ Return(r, "create_event", ok)
    /\ Goto(r, CreateEventNext(ok))
    /\ UNCHANGED <<req, errors, validated, locals, calls, events, logs, resp>>

\* lines 225-232: the confirmation is sent to the submitting user
HostDMCall(r) ==
    /\ pc[r] = "host_dm"
    /\ Issue(r, Call("chat_postMessage", req[r].user))
    /\ Goto(r, "host_dm_wait")
    /\ UNCHANGED <<req, errors, validated, locals, events, failed, logs, resp>>

\* HostDMNext with the exception of the confirmation caught nowhere
HostDMNext_Unhandled(ok) == IF ok THEN "admin_lookup" ELSE "done"

\* an exception of the confirmation is not caught before line 252
HostDMNext(ok) == IF ok THEN "admin_lookup" ELSE "hs_except"

HostDMReturn(r, ok) ==
    /\ pc[r] = "host_dm_wait"
    /\ Return(r, "host_dm", ok)
    /\ Goto(r, HostDMNext(ok))
    /\ UNCHANGED <<req, errors, validated, locals, calls, events, logs, resp>>

\* line 236: the administrator is looked up by e-mail
AdminLookupCall(r) ==
    /\ pc[r] = "admin_lookup"
    /\ Issue(r, Call("users_lookupByEmail", AdminEmail))
    /\ Goto(r, "admin_lookup_wait")
    /\ UNCHANGED <<req, errors, validated, locals, events, failed, logs, resp>>

\* AdminLookupNext with a failed lookup ignored
AdminLookupNext_Ignored(ok) == "admin_dm"

\* lines 236-237 and 249
AdminLookupNext(ok) == IF ok THEN "admin_dm" ELSE "admin_except"

AdminLookupReturn(r, ok) ==
    /\ pc[r] = "admin_lookup_wait"
    /\ Return(r, "admin_lookup", ok)
    /\ Goto(r, AdminLookupNext(ok))
    /\ UNCHANGED <<req, errors, validated, locals, calls, events, logs, resp>>

\* lines 239-248: the notification is sent to the administrator
AdminDMCall(r) ==
    /\ pc[r] = "admin_dm"
    /\ Issue(r, Call("chat_postMessage", AdminId))
    /\ Goto(r, "admin_dm_wait")
    /\ UNCHANGED <<req, errors, validated, locals, events, failed, logs, resp>>

\* lines 248-249: handle_submission returns after the last call
AdminDMNext(ok) == IF ok THEN "respond_clear" ELSE "admin_except"

AdminDMReturn(r, ok) ==
    /\ pc[r] = "admin_dm_wait"
    /\ Return(r, "admin_dm", ok)
    /\ Goto(r, AdminDMNext(ok))
    /\ UNCHANGED <<req, errors, validated, locals, calls, events, logs, resp>>

\* lines 249-250: the inner except clause
AdminExcept(r) ==
    /\ pc[r] = "admin_except"
    /\ Log(r, LogAdmin)
    /\ Goto(r, "respond_clear")
    /\ UNCHANGED <<req, errors, validated, locals, calls, events, inflight, failed, resp>>

\* lines 252-253: the outer except clause
HandleSubmissionExcept(r) ==
    /\ pc[r] = "hs_except"
    /\ Log(r, LogHandleSubmission)
    /\ Goto(r, "respond_clear")
    /\ UNCHANGED <<req, errors, validated, locals, calls, events, inflight, failed, resp>>

\* one step of the handler invocation r
Step(r) ==
    \/ Dispatch(r)
    \/ OpenModalCall(r)
    \/ \E ok \in BOOLEAN : OpenModalReturn(r, ok)
    \/ Validate(r)
    \/ SlackEventsExcept(r)
    \/ HandleSubmissionParse(r)
    \/ GetUserProfileCall(r)
    \/ \E ok \in BOOLEAN : \E profile \in Profiles : GetUserProfileReturn(r, ok, profile)
    \/ CreateEventSetupFails(r)
    \/ CreateEventCall(r)
    \/ \E ok \in BOOLEAN : CreateEventReturn(r, ok)
    \/ HostDMCall(r)
    \/ \E ok \in BOOLEAN : HostDMReturn(r, ok)
    \/ AdminLookupCall(r)
    \/ \E ok \in BOOLEAN : AdminLookupReturn(r, ok)
    \/ AdminDMCall(r)
    \/ \E ok \in BOOLEAN : AdminDMReturn(r, ok)
    \/ AdminExcept(r)
    \/ HandleSubmissionExcept(r)
    \/ RespondClear(r)

Next == \E r \in Reqs : Step(r)

Spec == Init /\ [][Next]_vars

\* two requests are handled at the same time, each by its own thread of the
\* server: a command, a submission that validates (with or without the id
\* of its user) or a submission with a wrong guest e-mail
ConcReqs == {1, 2}

GoodValues ==
    [date |-> VisitDate, start_time |-> Txt230pm, end_time |-> Txt330PM,
     guest_email |-> GoodEmail, guest_name |-> <<"B", "o", "b">>,
     reason |-> <<"d", "e", "m", "o">>]

ConcRequests(r) ==
    { [kind |-> "command", has_values |-> FALSE, values |-> NoValues, user |-> Missing],
      [kind |-> "submission", has_values |-> TRUE, values |-> GoodValues,
       user |-> UserId(r)],
      [kind |-> "submission", has_values |-> TRUE, values |-> GoodValues,
       user |-> Missing],
      [kind |-> "submission", has_values |-> TRUE,
       values |-> [GoodValues EXCEPT !.guest_email = NotAnEmail], user |-> UserId(r)] }

InitConc ==
    /\ \E q1 \in ConcRequests(1) : \E q2 \in ConcRequests(2) :
            req = [r \in Reqs |-> IF r = 1 THEN q1 ELSE IF r = 2 THEN q2 ELSE Absent]
    /\ pc = [r \in Reqs |-> IF r \in ConcReqs THEN "start" ELSE "absent"]
    /\ InitRest

SpecConc == InitConc /\ [][Next]_vars

(***************************************************************************)
(* Vocabulary of the properties.                                           *)
(***************************************************************************)
\* the external calls of handle_submission, in the order of the code
OrchestratorOps == {"users_info", "events_insert", "chat_postMessage", "users_lookupByEmail"}

OrchestratorSequence(r) ==
    << Call("users_info", req[r].user),
       Call("events_insert", <<>>),
       Call("chat_postMessage", req[r].user),
       Call("users_lookupByEmail", AdminEmail),
       Call("chat_postMessage", AdminId) >>

IssuedOp(r, op) == \E i \in 1..Len(calls[r]) : calls[r][i].op = op

Logged(r, msg) == \E i \in 1..Len(logs[r]) : logs[r][i] = msg

IsPrefix(s, t) == Len(s) <= Len(t) /\ s = SubSeq(t, 1, Len(s))

\* validate_submission returned the empty mapping for the request
Accepted(r) == validated[r] = "returned" /\ DOMAIN errors[r] = {}

\* the meaning of the time texts, in minutes after midnight; -1 for a text
\* that is no time
Unparseable == 0 - 1

ClockMinutes(t) ==
    CASE t \in {Txt230pm, Txt230PM, Txt2dot30pm, Txt1430} -> 14 * 60 + 30
      [] t \in {Txt330PM, Txt15dot30} -> 15 * 60 + 30
      [] t = Txt3pm -> 15 * 60
      [] t = Txt12am -> 0
      [] OTHER -> Unparseable

\* both time fields and the date are present and both texts are times
BothTimesParse(v) ==
    /\ v.date = VisitDate
    /\ ClockMinutes(v.start_time) # Unparseable
    /\ ClockMinutes(v.end_time) # Unparseable

\* the e-mail texts that do not have the shape local@domain.tld
InvalidEmails == {NotAnEmail, SpacedEmail, NoTldEmail}

(***************************************************************************)
(* C1: no external call of the orchestrator (host profile lookup, calendar *)
(* create, host notification, administrator lookup, administrator          *)
(* notification) is issued for a submission unless validate_submission     *)
(* returned the empty mapping for that submission's values.                *)
(***************************************************************************)
ReturnsEmpty(v) == ~v.raised /\ DOMAIN v.errors = {}

C1_EffectsOnlyAfterEmptyValidation ==
    \A r \in Reqs :
        (\E op \in OrchestratorOps : IssuedOp(r, op)) =>
            /\ req[r].kind = "submission"
            /\ req[r].has_values
            /\ Accepted(r)
            /\ ReturnsEmpty(validate_submission(req[r].values))

C1_Witness ==
    \E r \in Reqs : Accepted(r) /\ calls[r] = OrchestratorSequence(r) /\ pc[r] = "done"

(***************************************************************************)
(* C2: when create_event fails, neither the host notification nor the      *)
(* administrator lookup or notification is issued, and the exception is    *)
(* caught inside handle_submission (line 252), never by slack_events       *)
(* (line 62).                                                              *)
(***************************************************************************)
C2_CalendarFailureAborts ==
    \A r \in Reqs :
        "create_event" \in failed[r] =>
            /\ ~IssuedOp(r, "chat_postMessage")
            /\ ~IssuedOp(r, "users_lookupByEmail")
            /\ ~Logged(r, LogSlackEvents)
            /\ pc[r] \in {"hs_except", "respond_clear", "done"}
            /\ pc[r] # "hs_except" => Logged(r, LogHandleSubmission)

C2_Witness ==
    \E r \in Reqs :
        /\ "create_event" \in failed[r]
        /\ IssuedOp(r, "events_insert")
        /\ pc[r] = "done"

(***************************************************************************)
(* C3: when the calendar event was created and the confirmation to the     *)
(* submitting user fails, the administrator lookup is still issued before  *)
(* the handler finishes.                                                   *)
(***************************************************************************)
C3_HostFailureStillNotifiesAdmin ==
    \A r \in Reqs :
        ("host_dm" \in failed[r] /\ pc[r] = "done") => IssuedOp(r, "users_lookupByEmail")

(***************************************************************************)
(* C4: a failure of the administrator lookup or of the administrator       *)
(* message is swallowed by the inner except clause: after a failed lookup  *)
(* the message is not sent, the failed call is the last call, the calendar *)
(* event and the host notification were issued once and did not fail, and  *)
(* handle_submission returns without reaching an outer except clause.      *)
(***************************************************************************)
C4_AdminFailureSwallowed ==
    \A r \in Reqs :
        LET lookup == "admin_lookup" \in failed[r]
            dm == "admin_dm" \in failed[r]
        IN  (lookup \/ dm) =>
                /\ lookup => calls[r] = SubSeq(OrchestratorSequence(r), 1, 4)
                /\ dm => calls[r] = OrchestratorSequence(r)
                /\ Len(events[r]) = 1
                /\ failed[r] \cap {"create_event", "host_dm"} = {}
                /\ ~Logged(r, LogHandleSubmission)
                /\ ~Logged(r, LogSlackEvents)
                /\ pc[r] \in {"admin_except", "respond_clear", "done"}
                /\ pc[r] # "admin_except" => Logged(r, LogAdmin)

C4_Witness ==
    \E r \in Reqs : "admin_lookup" \in failed[r] /\ pc[r] = "done"

(***************************************************************************)
(* C5: the external calls of a submission are a prefix of: host profile    *)
(* lookup, calendar create, host notification, administrator lookup,       *)
(* administrator notification (so each is issued at most once, in that     *)
(* order), and a call is issued only when no earlier call is outstanding.  *)
(***************************************************************************)
CallsInOrder ==
    \A r \in Reqs :
        req[r].kind = "submission" => IsPrefix(calls[r], OrchestratorSequence(r))

IssuedAfterReturn ==
    \A r \in Reqs : calls'[r] # calls[r] => inflight[r] = NoCall

C5_StrictOrderNoRetry == [] CallsInOrder /\ [][IssuedAfterReturn]_vars

C5_Witness ==
    \E r \in Reqs :
        calls[r] = OrchestratorSequence(r) /\ inflight[r] = "chat_postMessage"

(***************************************************************************)
(* C6: a form submission whose validation returned the empty mapping gets  *)
(* no response while its handler runs, and when the handler has finished   *)
(* exactly one response was sent, the close-the-form response, whichever   *)
(* of the external calls failed.  The handler cannot run forever: every    *)
(* step moves it strictly closer to the end, and only the end has no step. *)
(***************************************************************************)
\* the number of steps a handler at position l can still take, at most
Rank(l) ==
    CASE l = "start" -> 16
      [] l \in {"open_modal", "validate"} -> 15
      [] l \in {"open_modal_wait", "hs_extract"} -> 14
      [] l = "get_user_profile" -> 13
      [] l = "users_info_wait" -> 12
      [] l = "create_event" -> 11
      [] l = "events_insert_wait" -> 10
      [] l = "host_dm" -> 9
      [] l = "host_dm_wait" -> 8
      [] l = "admin_lookup" -> 7
      [] l = "admin_lookup_wait" -> 6
      [] l = "admin_dm" -> 5
      [] l = "admin_dm_wait" -> 4
      [] l \in {"admin_except", "hs_except", "se_except"} -> 3
      [] l = "respond_clear" -> 2
      [] OTHER -> 0

StepsApproachEnd ==
    \A r \in Reqs :
        /\ pc'[r] # pc[r] => Rank(pc'[r]) < Rank(pc[r])
        /\ Rank(pc'[r]) = 0 => pc'[r] \in {"done", "absent"}

OneClearResponse ==
    \A r \in Reqs :
        Accepted(r) =>
            IF pc[r] = "done" THEN resp[r] = <<ClearResponse>> ELSE resp[r] = <<>>

C6_AcceptedGetsOneClear == [] OneClearResponse /\ [][StepsApproachEnd]_vars

C6_Witness ==
    \E r \in Reqs :
        /\ Accepted(r)
        /\ pc[r] = "done"
        /\ {"users_info", "host_dm"} \subseteq failed[r]
        /\ resp[r] = <<ClearResponse>>

(***************************************************************************)
(* C7, as stated: once the calendar-create call or a notification call of  *)
(* a submission has been issued, the response to the request has already   *)
(* been sent.                                                              *)
(***************************************************************************)
C7_AckBeforeOrchestration ==
    \A r \in Reqs :
        (IssuedOp(r, "events_insert") \/ IssuedOp(r, "chat_postMessage")) => resp[r] # <<>>

(***************************************************************************)
(* C7, amended: the response to a submission is sent only after            *)
(* handle_submission has returned: when a response has been sent the       *)
(* handler is finished with no external call outstanding, and no external  *)
(* call is issued after the response.                                      *)
(***************************************************************************)
RespondedMeansFinished ==
    \A r \in Reqs :
        (req[r].kind = "submission" /\ resp[r] # <<>>) =>
            pc[r] = "done" /\ inflight[r] = NoCall

NoCallAfterResponse ==
    \A r \in Reqs : resp[r] # <<>> => calls'[r] = calls[r]

C7_AckAfterOrchestration == [] RespondedMeansFinished /\ [][NoCallAfterResponse]_vars

C7_Witness ==
    \E r \in Reqs :
        /\ Accepted(r)
        /\ calls[r] = OrchestratorSequence(r)
        /\ failed[r] = {}
        /\ resp[r] = <<ClearResponse>>

(***************************************************************************)
(* C8, as stated: when the start-time or the end-time text fails to parse, *)
(* the returned mapping has an entry for start_time and one for end_time   *)
(* and the two carry the identical message text.                           *)
(***************************************************************************)
Returned(r) == req[r].kind = "submission" /\ validated[r] = "returned"

C8_SameMessageOnBothTimeFields ==
    \A r \in Reqs :
        (Returned(r) /\ ~BothTimesParse(req[r].values)) =>
            /\ {"start_time", "end_time"} \subseteq DOMAIN errors[r]
            /\ errors[r]["start_time"] = errors[r]["end_time"]

(***************************************************************************)
(* C8, amended: when the start-time or the end-time text fails to parse,   *)
(* the returned mapping has an entry for start_time, "Enter time like      *)
(* 2:30 PM or 14:30", and one for end_time, "Enter time like 3:30 PM or    *)
(* 15:30", whichever of the two texts failed.                              *)
(***************************************************************************)
C8_BothTimeFieldsBlamed ==
    \A r \in Reqs :
        (Returned(r) /\ ~BothTimesParse(req[r].values)) =>
            /\ {"start_time", "end_time"} \subseteq DOMAIN errors[r]
            /\ errors[r]["start_time"] = "Enter time like 2:30 PM or 14:30"
            /\ errors[r]["end_time"] = "Enter time like 3:30 PM or 15:30"

C8_Witness ==
    \E r \in Reqs :
        /\ Returned(r)
        /\ req[r].values.date = VisitDate
        /\ req[r].values.start_time = Txt230pm
        /\ req[r].values.end_time = TxtNoon
        /\ {"start_time", "end_time"} \subseteq DOMAIN errors[r]

(***************************************************************************)
(* C9: when both time texts parse, a start at or after the end (equal      *)
(* instants included) gives an end_time entry "End time must be after      *)
(* start time." and no start_time entry, and a start before the end gives  *)
(* neither entry.                                                          *)
(***************************************************************************)
C9_StartMustPrecedeEnd ==
    \A r \in Reqs :
        (Returned(r) /\ BothTimesParse(req[r].values)) =>
            /\ "start_time" \notin DOMAIN errors[r]
            /\ IF ClockMinutes(req[r].values.start_time)
                      >= ClockMinutes(req[r].values.end_time)
               THEN /\ "end_time" \in DOMAIN errors[r]
                    /\ errors[r]["end_time"] = "End time must be after start time."
               ELSE "end_time" \notin DOMAIN errors[r]

C9_Witness ==
    \E r \in Reqs :
        /\ Returned(r)
        /\ req[r].values.date = VisitDate
        /\ req[r].values.start_time = Txt1430
        /\ req[r].values.end_time = Txt2dot30pm
        /\ "end_time" \in DOMAIN errors[r]

(***************************************************************************)
(* C10: the returned mapping has a guest_email entry exactly when the      *)
(* guest e-mail is present, non-empty and not of the shape                 *)
(* local@domain.tld, whether or not time errors were recorded, and its     *)
(* keys are among start_time, end_time and guest_email.                    *)
(***************************************************************************)
C10_EmailCheckedIndependently ==
    \A r \in Reqs :
        Returned(r) =>
            /\ "guest_email" \in DOMAIN errors[r] <=> req[r].values.guest_email \in InvalidEmails
            /\ DOMAIN errors[r] \subseteq {"start_time", "end_time", "guest_email"}

C10_Witness ==
    \E r \in Reqs :
        /\ Returned(r)
        /\ DOMAIN errors[r] = {"start_time", "end_time", "guest_email"}
        /\ errors[r]["guest_email"] = MsgEmail

(***************************************************************************)
(* C11: validate_submission never raises, whatever the submitted field     *)
(* mapping: once the validator has run on the values of a submission it    *)
(* has returned a mapping.                                                 *)
(***************************************************************************)
C11_ValidatorNeverRaises ==
    \A r \in Reqs :
        (req[r].kind = "submission" /\ req[r].has_values
            /\ pc[r] \notin {"start", "validate"}) =>
            validated[r] = "returned"

(***************************************************************************)
(* C12: get_user_profile never raises outward: once the directory lookup   *)
(* has failed, the host has no e-mail and the name "Unknown", no outer     *)
(* except clause is reached because of it, and the handler is at the       *)
(* calendar-create step or past it.                                        *)
(***************************************************************************)
ReachedCreateEvent(r) ==
    \/ pc[r] = "create_event"
    \/ IssuedOp(r, "events_insert")
    \/ "create_event" \in failed[r]

C12_ProfileLookupFailureContained ==
    \A r \in Reqs :
        "users_info" \in failed[r] =>
            /\ locals[r].host.email = None
            /\ locals[r].host.first_name = <<"U", "n", "k", "n", "o", "w", "n">>
            /\ Logged(r, LogProfile)
            /\ ~Logged(r, LogSlackEvents)
            /\ ReachedCreateEvent(r)

C12_Witness ==
    \E r \in Reqs :
        /\ "users_info" \in failed[r]
        /\ IssuedOp(r, "events_insert")
        /\ Len(events[r]) = 1
        /\ events[r][1].host = Unknown

(***************************************************************************)
(* C13: for a form submission whose validation returned, a non-empty       *)
(* mapping is answered by the inline-errors response carrying exactly that *)
(* mapping, an empty mapping by the close-the-form response, and no        *)
(* submission is answered by both.                                         *)
(***************************************************************************)
InlineErrors(r) == Response(200, "errors", errors[r])

C13_ResponseShapeFollowsMapping ==
    \A r \in Reqs :
        Returned(r) =>
            IF DOMAIN errors[r] # {}
            THEN /\ resp[r] = <<InlineErrors(r)>>
                 /\ InlineErrors(r) # ClearResponse
                 /\ pc[r] = "done"
            ELSE /\ pc[r] = "done" => resp[r] = <<ClearResponse>>
                 /\ pc[r] # "done" => resp[r] = <<>>

C13_Witness ==
    \E r \in Reqs :
        /\ Returned(r)
        /\ DOMAIN errors[r] = {"end_time", "guest_email"}
        /\ resp[r] = <<InlineErrors(r)>>
        /\ pc[r] = "done"

(***************************************************************************)
(* C14: on one date the time texts "2:30pm", "2:30 PM" and "2.30pm" all    *)
(* parse and give the same instant, and "14:30" parses to 14:30 of that    *)
(* date: the validator reports no unparseable time for them, finds none of *)
(* them later than another, and the orchestrator stores 14:30 of the       *)
(* visit date for each of them.                                            *)
(***************************************************************************)
HalfPastTwoTexts == {Txt230pm, Txt230PM, Txt2dot30pm, Txt1430}

HalfPastTwo == [year |-> 2024, month |-> 6, day |-> 1, hour |-> 14, minute |-> 30]

TimesStored(r) == locals[r].start_dt # NoDt

C14_EqualTimeTextsSameInstant ==
    \A r \in Reqs :
        /\ (Returned(r) /\ req[r].values.date = VisitDate
                /\ req[r].values.start_time \in HalfPastTwoTexts
                /\ req[r].values.end_time \in HalfPastTwoTexts) =>
              /\ "start_time" \notin DOMAIN errors[r]
              /\ "end_time" \in DOMAIN errors[r]
              /\ errors[r]["end_time"] = MsgEndAfterStart
        /\ (TimesStored(r) /\ req[r].values.start_time \in HalfPastTwoTexts) =>
              locals[r].start_dt = HalfPastTwo
        /\ (TimesStored(r) /\ req[r].values.end_time \in HalfPastTwoTexts) =>
              locals[r].end_dt = HalfPastTwo

C14_Witness ==
    \E r \in Reqs :
        /\ TimesStored(r)
        /\ req[r].values.start_time = Txt12am
        /\ req[r].values.end_time = Txt2dot30pm
        /\ locals[r].end_dt = HalfPastTwo

(***************************************************************************)
(* C15: every event sent to the calendar starts strictly before it ends,   *)
(* and its start and end are the instants of the submitted texts on the    *)
(* visit date, the ones the validator compared.                            *)
(***************************************************************************)
MinuteOfDay(dt) == dt.hour * 60 + dt.minute

OnVisitDate(dt) == dt.year = 2024 /\ dt.month = 6 /\ dt.day = 1

C15_EventStartsBeforeEnd ==
    \A r \in Reqs :
        \A i \in 1..Len(events[r]) :
            /\ DtKey(events[r][i].start) < DtKey(events[r][i].end)
            /\ Accepted(r)
            /\ OnVisitDate(events[r][i].start)
            /\ OnVisitDate(events[r][i].end)
            /\ MinuteOfDay(events[r][i].start) = ClockMinutes(req[r].values.start_time)
            /\ MinuteOfDay(events[r][i].end) = ClockMinutes(req[r].values.end_time)

C15_Witness ==
    \E r \in Reqs :
        /\ Len(events[r]) = 1
        /\ req[r].values.start_time = Txt3pm
        /\ req[r].values.end_time = Txt15dot30
        /\ MinuteOfDay(events[r][1].start) = 900
        /\ MinuteOfDay(events[r][1].end) = 930

(***************************************************************************)
(* C16: the attendees of every event sent to the calendar contain the      *)
(* administrator's e-mail, and the host's e-mail exactly when the profile  *)
(* returned by get_user_profile has one; after a failed directory lookup   *)
(* the event is sent with the administrator as its only attendee and       *)
(* "Unknown" as the host's name.                                           *)
(***************************************************************************)
Contains(seq, x) == \E k \in 1..Len(seq) : seq[k] = x

C16_AttendeesAdminAndKnownHost ==
    \A r \in Reqs :
        \A i \in 1..Len(events[r]) :
            /\ Contains(events[r][i].attendees, AdminEmail)
            /\ Contains(events[r][i].attendees, locals[r].host.email)
                    <=> Truthy(locals[r].host.email)
            /\ Len(events[r][i].attendees) = IF Truthy(locals[r].host.email) THEN 2 ELSE 1
            /\ "users_info" \in failed[r] =>
                    /\ events[r][i].attendees = <<AdminEmail>>
                    /\ events[r][i].host = <<"U", "n", "k", "n", "o", "w", "n">>

C16_Witness ==
    \E r \in Reqs :
        /\ "users_info" \in failed[r]
        /\ "create_event" \notin failed[r]
        /\ pc[r] = "host_dm"
        /\ Len(events[r]) = 1
        /\ events[r][1].attendees = <<AdminEmail>>

(***************************************************************************)
(* C17: a request with an invalid signature is answered with 403, one      *)
(* whose payload does not parse with 400, one whose payload is not a       *)
(* view_submission of the visitor form with 404, and for none of them is   *)
(* the form opened, the validator run or the orchestrator run.             *)
(***************************************************************************)
NotVisitorForm == {"other_payload", "nonobject_payload"}

Rejected == {"bad_signature", "bad_payload"} \cup NotVisitorForm

Answer(r, status, body) == resp[r] = <<Response(status, body, EmptyDict)>>

C17_RejectedRequestsHaveNoEffect ==
    \A r \in Reqs :
        req[r].kind \in Rejected =>
            /\ calls[r] = <<>>
            /\ events[r] = <<>>
            /\ validated[r] = "no"
            /\ pc[r] \in {"start", "done"}
            /\ pc[r] = "start" => resp[r] = <<>>
            /\ (pc[r] = "done" /\ req[r].kind = "bad_signature") =>
                    Answer(r, 403, "Invalid signature")
            /\ (pc[r] = "done" /\ req[r].kind = "bad_payload") =>
                    Answer(r, 400, "Bad payload")
            /\ (pc[r] = "done" /\ req[r].kind \in NotVisitorForm) =>
                    Answer(r, 404, "No handler")

(***************************************************************************)
(* C18: two requests handled at the same time do not affect each other:    *)
(* every step changes the state of one request only, and the calls issued  *)
(* for a request and the response it gets are those its own input and the  *)
(* failures of its own calls give when it is handled alone.                *)
(***************************************************************************)
Untouched(o) ==
    /\ req'[o] = req[o]
    /\ pc'[o] = pc[o]
    /\ errors'[o] = errors[o]
    /\ validated'[o] = validated[o]
    /\ locals'[o] = locals[o]
    /\ calls'[o] = calls[o]
    /\ events'[o] = events[o]
    /\ inflight'[o] = inflight[o]
    /\ failed'[o] = failed[o]
    /\ logs'[o] = logs[o]
    /\ resp'[o] = resp[o]

OneRequestSteps == \E r \in Reqs : \A o \in Reqs \ {r} : Untouched(o)

\* how many calls of the orchestrator a finished request has issued, by the
\* failures of its own calls
OwnCallCount(r) ==
    IF "create_event" \in failed[r] THEN Len(events[r]) + 1
    ELSE IF "host_dm" \in failed[r] THEN 3
    ELSE IF "admin_lookup" \in failed[r] THEN 4
    ELSE 5

OutcomeAsAlone(r) ==
    CASE req[r].kind = "command" ->
            /\ calls[r] = <<Call("views_open", <<>>)>>
            /\ resp[r] = <<Response(IF failed[r] = {} THEN 200 ELSE 500,
                                    IF failed[r] = {} THEN "" ELSE "Internal Server Error",
                                    EmptyDict)>>
      [] req[r].kind = "submission" /\ DOMAIN errors[r] # {} ->
            /\ calls[r] = <<>>
            /\ failed[r] = {}
            /\ resp[r] = <<Response(200, "errors",
                                    [f \in {"guest_email"} |-> MsgEmail])>>
      [] req[r].kind = "submission" /\ DOMAIN errors[r] = {}
                /\ req[r].user = Missing ->
            /\ calls[r] = <<>>
            /\ failed[r] = {}
            /\ resp[r] = <<ClearResponse>>
      [] req[r].kind = "submission" /\ DOMAIN errors[r] = {}
                /\ req[r].user # Missing ->
            /\ calls[r] = SubSeq(OrchestratorSequence(r), 1, OwnCallCount(r))
            /\ resp[r] = <<ClearResponse>>
      [] OTHER -> FALSE

EachAsAlone ==
    \A r \in Reqs :
        /\ pc[r] = "done" => OutcomeAsAlone(r)
        /\ pc[r] = "absent" => (calls[r] = <<>> /\ resp[r] = <<>> /\ failed[r] = {})
        /\ IsPrefix(calls[r], IF req[r].kind = "command"
                              THEN <<Call("views_open", <<>>)>>
                              ELSE OrchestratorSequence(r))

C18_ConcurrentRequestsIndependent == [] EachAsAlone /\ [][OneRequestSteps]_vars

C18_Witness ==
    /\ pc[1] = "done" /\ pc[2] = "done"
    /\ failed[1] = {"create_event"}
    /\ calls[1] = SubSeq(OrchestratorSequence(1), 1, 2)
    /\ failed[2] = {}
    /\ calls[2] = OrchestratorSequence(2)
    /\ resp[1] = <<ClearResponse>> /\ resp[2] = <<ClearResponse>>

(***************************************************************************)
(* C19: whenever the close-the-form response is returned for a submission, *)
(* validate_submission had returned for it and handle_submission was       *)
(* called for it.                                                          *)
(***************************************************************************)
\* handle_submission was entered: it has issued its first call, or its own
\* except clause has logged
OrchestratorInvoked(r) == calls[r] # <<>> \/ Logged(r, LogHandleSubmission)

C19_ClearOnlyAfterOrchestration ==
    \A r \in Reqs :
        (req[r].kind = "submission" /\ Contains(resp[r], ClearResponse)) =>
            /\ validated[r] = "returned"
            /\ OrchestratorInvoked(r)

(***************************************************************************)
(* C20: when the directory lookup itself succeeded and the profile it      *)
(* returned has an e-mail, get_user_profile returns that e-mail, also when *)
(* the profile gives no name; the name is then "Unknown" and the e-mail is *)
(* among the attendees of the calendar event.                              *)
(***************************************************************************)
LookupSucceeded(r) ==
    /\ IssuedOp(r, "users_info")
    /\ inflight[r] # "users_info"
    /\ "users_info" \notin failed[r]

NoNameDerivable(p) ==
    /\ ~Truthy(p.first_name)
    /\ p.real_name = None \/ TakeWord(LStrip(p.real_name)) = <<>>

C20_ProfileEmailSurvivesMissingName ==
    \A r \in Reqs :
        (LookupSucceeded(r) /\ Truthy(locals[r].profile.email)) =>
            /\ locals[r].host.email = locals[r].profile.email
            /\ NoNameDerivable(locals[r].profile) =>
                    locals[r].host.first_name = <<"U", "n", "k", "n", "o", "w", "n">>
            /\ \A i \in 1..Len(events[r]) :
                    Contains(events[r][i].attendees, locals[r].profile.email)

====
